---- MODULE Spec2Model ----
(***************************************************************************)
(* The approval lifecycle of a Finding, as driven by lambda_handler in     *)
(* src/agents/smartAssistant.py: approve / reject callbacks for one        *)
(* Finding, each a sequence of blocking store calls (get by id,            *)
(* conditional update on _seq_no) and at most one call of the agent that   *)
(* executes the proposed actions.  Callbacks interleave between store      *)
(* calls; a store call may also fail transiently.                          *)
(***************************************************************************)
EXTENDS Integers, FiniteSets, Sequences, TLC

\* Number of approve/reject callbacks delivered for the Finding.
NumCallbacks == 2
\* Number of store calls that may fail for a reason other than a conflict.
MaxFaults == 1

max_retriesMut == 3 + 1

\* smartAssistant.py:734
max_retries == 3

Callbacks == 1..NumCallbacks

\* smartAssistant.py:680  action in ['approve', 'reject']
Actions == {"approve", "reject"}

Statuses == {"pending_review", "approved", "rejected", "processed", "failed"}

VARIABLES
    doc,            \* the stored Finding: fields of _source
    pc,             \* pc[p]: where callback p is in lambda_handler
    action,         \* action[p]: query parameter 'action'
    current_status, \* current_status[p]: status seen by the first read
    retry_count,    \* retry_count[p]: local of the retry loop
    seq_no,         \* seq_no[p]: the version token held by p (TokenMatches)
    result,         \* result[p]: the value lambda_handler returned
    agent_calls,    \* number of monitoring_agent(action_prompt) calls
    faults,         \* store calls that failed transiently so far
    h               \* h[p]: what invocation p has done (history)

lifecycleVars ==
    <<doc, pc, action, current_status, retry_count, seq_no, result,
      agent_calls, faults, h>>

\* The findings index as written by store_finding / store_agent_finding
\* (agent_tools/agent_findings_store.py, agent_tools/store_agent_finding.py)
VARIABLES
    findings,       \* findings[id]: the stored document of that id
    store_result    \* outcome of the last store_finding / store_agent_finding

storeVars == <<findings, store_result>>

\* One call of the agent tool correlate_errors_across_services
\* (agent_tools/correlate_errors.py)
VARIABLES
    secret,          \* the configuration held by Secrets Manager
    service_buckets, \* by_service buckets of the window: doc_count per service
    error_threshold, \* the tool's argument
    correlation      \* the value the tool returned

corrVars == <<secret, service_buckets, error_threshold, correlation>>

\* One call of the agent tool check_recent_deployment
\* (agent_tools/check_recent_deployment.py)
VARIABLES
    deployment_hits, \* the deployment logs found, each with the ERROR counts
                     \* of the hour before and the hour after it
    deployment_check \* the value the tool returned

impactVars == <<deployment_hits, deployment_check>>

\* The process-local cache of smartAssistant.py and the clock it reads
VARIABLES
    query_cache,    \* query_cache[cache_key]: the entry {data, expiry}
    now,            \* time.time(), in seconds
    cached_result,  \* the last get_from_cache call: key, time, value returned
    stored,         \* stored[cache_key]: when and what add_to_cache stored last
    lookup          \* the last baseline or deployment lookup: whether it queried

cacheVars == <<query_cache, now, cached_result, stored, lookup>>

\* One periodic run of lambda_handler (smartAssistant.py:917-946)
VARIABLES
    check_input,    \* the threshold of the run and what the store answered
    error_data,     \* the value check_for_errors returned
    analysis_runs,  \* number of monitoring_agent(initial_prompt) calls
    periodic_result, \* the value lambda_handler returned
    initial_prompt, \* what generate_contextual_prompt computed
    event,          \* the last event that had invalid query parameters
    response        \* the value lambda_handler returned for it

checkVars ==
    <<check_input, error_data, analysis_runs, periodic_result, initial_prompt,
      event, response>>

toolVars == <<storeVars, corrVars, impactVars, cacheVars, checkVars>>

vars == <<lifecycleVars, toolVars>>

----------------------------------------------------------------------------
(* Values                                                                  *)

\* agent_findings_store.py:124-126: a stored Finding starts pending_review
NewFinding ==
    [status |-> "pending_review", human_approved |-> "unset",
     error_message |-> FALSE, action_response |-> FALSE]

NoResult == [statusCode |-> 0, title |-> "none"]
\* smartAssistant.py:700-722
NoActionNeeded == [statusCode |-> 200, title |-> "No Action Needed"]
\* smartAssistant.py:902-906
ErrorResult == [statusCode |-> 500, title |-> "Error"]

\* smartAssistant.py:872-898
ActionProcessed(a) ==
    [statusCode |-> 200,
     title |-> IF a = "approve" THEN "Action Approved" ELSE "Action Rejected"]

NoHistory ==
    [persisted |-> "none", executed |-> 0, raised |-> FALSE,
     interfered |-> FALSE]

NoActionStatesMut == {"approved"}

\* smartAssistant.py:698  current_status in ["approved", "processed"]
NoActionStates == {"approved", "processed"}

\* smartAssistant.py:728  approved = (action == 'approve')
approved(a) == a = "approve"

execute_actionsMut(a) == TRUE

\* smartAssistant.py:771  if approved:
execute_actions(a) == approved(a)

\* smartAssistant.py:730  status = "approved" if approved else "rejected"
status(a) == IF approved(a) THEN "approved" ELSE "rejected"

DecisionDocMut(d, a) ==
    [d EXCEPT !.human_approved = "true", !.status = status(a)]

\* smartAssistant.py:748-755  body of the approve/reject update
DecisionDoc(d, a) ==
    [d EXCEPT !.human_approved = IF approved(a) THEN "true" ELSE "false",
              !.status = status(a)]

\* smartAssistant.py:790-795  body of the update before the agent runs
ProcessedDoc(d) == [d EXCEPT !.status = "processed"]

\* smartAssistant.py:828-834  body of the update after the agent returned
CompletedDoc(d) ==
    [d EXCEPT !.status = "processed", !.action_response = TRUE]

FailedDocMut(d) ==
    [d EXCEPT !.status = "processed", !.error_message = TRUE]

\* smartAssistant.py:855-861  body of the update in the except handler
FailedDoc(d) ==
    [d EXCEPT !.status = "failed", !.error_message = TRUE]

\* if_seq_no=seq_no, if_primary_term=primary_term: the store applies the
\* update only when the token is that of the stored document.  _seq_no
\* changes with every applied update, so a token read earlier matches
\* exactly when no update was applied since: seq_no[p] is "latest" from the
\* read until the next applied update of another invocation, then "stale".
TokenMatches(token) == token = "latest"

\* A store call may fail for a reason other than a version conflict.
FaultChoices == IF faults < MaxFaults THEN BOOLEAN ELSE {FALSE}

Started(p) == pc[p] # "idle"

\* History after p's update was applied: every other invocation that has
\* started has had the Finding written by somebody else since.
Wrote(p, hp) ==
    [q \in Callbacks |->
        IF q = p THEN hp
        ELSE IF Started(q) THEN [h[q] EXCEPT !.interfered = TRUE]
        ELSE h[q]]

\* Tokens after p's update call.  p's own token is not used again: every
\* update is preceded by its own read (lines 740, 783, 821, 848).  An
\* applied update makes the tokens held by the others stale.
Release(p, applied) ==
    [q \in Callbacks |->
        IF q = p THEN "none"
        ELSE IF applied /\ seq_no[q] = "latest" THEN "stale"
        ELSE seq_no[q]]

Fault(f) == faults' = IF f THEN faults + 1 ELSE faults

----------------------------------------------------------------------------
(* The findings index                                                      *)

\* Number of document ids of the findings index.
MaxFindings == 3

FindingIds == 1..MaxFindings

\* store_agent_finding.py:78-79: the values the tool documents for its
\* status parameter
ToolStatuses == {"pending_review", "in_progress", "resolved"}

NoStoreResult == [status |-> "none", finding_id |-> 0]

\* no document has been stored and no tool call has returned
StoreIdle ==
    /\ findings = <<>>
    /\ store_result = NoStoreResult

----------------------------------------------------------------------------
(* Error correlation: configuration and inputs                             *)

Services == {"A", "B", "C"}

\* doc_count of a service in the window; 0: the aggregation has no bucket
Counts == {0, 5, 8, 12}

\* values of the error_threshold argument (correlate_errors.py:16, an int
\* that is not validated; the default is 5)
Thresholds == {0, 5, 8}

\* The "services" list of the configuration: for some of the services, a
\* name and a list of dependency names.
ServiceConfigs ==
    UNION { { {[name |-> n, dependencies |-> deps[n]] : n \in D} :
                deps \in [D -> SUBSET Services] } : D \in SUBSET Services }

NoCorrelation == [returned |-> FALSE]

\* the correlation tool has not been called
CorrIdle ==
    /\ secret = [opensearch |-> "endpoint", services |-> {}]
    /\ service_buckets = [s \in Services |-> 0]
    /\ error_threshold = 5
    /\ correlation = NoCorrelation

----------------------------------------------------------------------------
(* Deployment impact: inputs                                               *)

\* Largest ERROR count of a one-hour window.
MaxCount == 13

\* a deployment log of a service, with the hits.total.value of the two
\* window queries made for it
DeploymentHits ==
    [service : {"A", "B"}, before : 0..MaxCount, after : 0..MaxCount]

\* the deployment query has no hit, one, or two
LogLengths == {0, 1, 2}

\* the hits of the deployment query: n deployment logs
DeploymentLogs(n) == [1..n -> DeploymentHits]

NoDeploymentCheck == [returned |-> FALSE]

\* the deployment tool has not been called
ImpactIdle ==
    /\ deployment_hits = <<>>
    /\ deployment_check = NoDeploymentCheck

----------------------------------------------------------------------------
(* The cache                                                               *)

\* smartAssistant.py:122
CACHE_TTL == 300

\* Latest time the clock is followed to.
MaxNow == 601

\* None
None == [none |-> TRUE]

NoRead == [cache_key |-> <<>>, at |-> 0, value |-> None]

NoLookup == [kind |-> "none"]

\* the process has started: nothing is cached
CacheIdle ==
    /\ query_cache = <<>>
    /\ now = 0
    /\ cached_result = NoRead
    /\ stored = <<>>
    /\ lookup = NoLookup

----------------------------------------------------------------------------
(* The periodic error check: inputs                                        *)

NoCheck == [ran |-> FALSE]

NoPrompt == [generated |-> FALSE]

NoEvent == [kind |-> "none"]

\* no periodic run has been made
CheckIdle ==
    /\ check_input = NoCheck
    /\ error_data = None
    /\ analysis_runs = 0
    /\ periodic_result = [statusCode |-> 0]
    /\ initial_prompt = NoPrompt
    /\ event = NoEvent
    /\ response = [statusCode |-> 0]

ToolsIdle == StoreIdle /\ CorrIdle /\ ImpactIdle /\ CacheIdle /\ CheckIdle

----------------------------------------------------------------------------
InitLifecycle ==
    /\ doc = NewFinding
    /\ pc = [p \in Callbacks |-> "idle"]
    /\ action = [p \in Callbacks |-> "approve"]
    /\ current_status = [p \in Callbacks |-> "unread"]
    /\ retry_count = [p \in Callbacks |-> 0]
    /\ seq_no = [p \in Callbacks |-> "none"]
    /\ result = [p \in Callbacks |-> NoResult]
    /\ agent_calls = 0
    /\ faults = 0
    /\ h = [p \in Callbacks |-> NoHistory]

Init == InitLifecycle /\ ToolsIdle

\* smartAssistant.py:675-725: a callback with finding_id and a valid action
\* arrives (callbacks are numbered in their order of arrival); the handler
\* reads the Finding and returns the no-op page on approved / processed;
\* a failed read is logged and the handler goes on
CheckStatus(p) ==
    /\ pc[p] = "idle"
    /\ UNCHANGED toolVars
    /\ \A q \in Callbacks : q < p => pc[q] # "idle"
    /\ \E a \in Actions : action' = [action EXCEPT ![p] = a]
    /\ \E f \in FaultChoices :
        /\ Fault(f)
        /\ IF f
           THEN /\ current_status' = [current_status EXCEPT ![p] = "unknown"]
                /\ pc' = [pc EXCEPT ![p] = "latest"]
                /\ UNCHANGED result
           ELSE /\ current_status' = [current_status EXCEPT ![p] = doc.status]
                /\ IF doc.status \in NoActionStates
                   THEN /\ pc' = [pc EXCEPT ![p] = "done"]
                        /\ result' = [result EXCEPT ![p] = NoActionNeeded]
                   ELSE /\ pc' = [pc EXCEPT ![p] = "latest"]
                        /\ UNCHANGED result
    /\ UNCHANGED <<doc, retry_count, seq_no, agent_calls, h>>

\* smartAssistant.py:761-768 and 900-906: a failed attempt of the retry loop
RetryOrRaise(p) ==
    /\ retry_count' = [retry_count EXCEPT ![p] = @ + 1]
    /\ IF retry_count[p] + 1 >= max_retries
       THEN /\ pc' = [pc EXCEPT ![p] = "done"]
            /\ result' = [result EXCEPT ![p] = ErrorResult]
       ELSE /\ pc' = [pc EXCEPT ![p] = "latest"]
            /\ UNCHANGED result

\* smartAssistant.py:737-742: read the latest version token
GetLatest(p) ==
    /\ pc[p] = "latest"
    /\ UNCHANGED toolVars
    /\ \E f \in FaultChoices :
        /\ Fault(f)
        /\ IF f
           THEN /\ RetryOrRaise(p)
                /\ UNCHANGED seq_no
           ELSE /\ seq_no' = [seq_no EXCEPT ![p] = "latest"]
                /\ pc' = [pc EXCEPT ![p] = "update"]
                /\ UNCHANGED <<retry_count, result>>
    /\ UNCHANGED <<doc, action, current_status, agent_calls, h>>

\* smartAssistant.py:745-771 and 871-898: the conditional approve/reject
\* update; a reject returns right after it
UpdateDecision(p) ==
    /\ pc[p] = "update"
    /\ UNCHANGED toolVars
    /\ \E f \in FaultChoices :
        /\ Fault(f)
        /\ LET applied == ~f /\ TokenMatches(seq_no[p]) IN
           /\ seq_no' = Release(p, applied)
           /\ IF ~applied
              THEN /\ RetryOrRaise(p)
                   /\ UNCHANGED <<doc, h>>
              ELSE /\ doc' = DecisionDoc(doc, action[p])
                   /\ h' = Wrote(p, [h[p] EXCEPT
                                       !.persisted = status(action[p])])
                   /\ IF execute_actions(action[p])
                      THEN /\ pc' = [pc EXCEPT ![p] = "refresh"]
                           /\ UNCHANGED result
                      ELSE /\ pc' = [pc EXCEPT ![p] = "done"]
                           /\ result' = [result EXCEPT
                                           ![p] = ActionProcessed(action[p])]
                   /\ UNCHANGED retry_count
    /\ UNCHANGED <<action, current_status, agent_calls>>

\* smartAssistant.py:773-785 and 800-802, 844: re-read the Finding for its
\* proposed actions (a failure goes to the except handler), then read the
\* version token for the first processed update (a failure is logged)
Refresh(p) ==
    /\ pc[p] = "refresh"
    /\ UNCHANGED toolVars
    /\ \E f \in FaultChoices, where \in {"refresh", "latest"} :
        /\ Fault(f)
        /\ IF f
           THEN /\ pc' = [pc EXCEPT ![p] = IF where = "refresh"
                                           THEN "fail_get" ELSE "agent"]
                /\ UNCHANGED seq_no
           ELSE /\ where = "latest"
                /\ pc' = [pc EXCEPT ![p] = "pre_update"]
                /\ seq_no' = [seq_no EXCEPT ![p] = "latest"]
    /\ UNCHANGED <<doc, action, current_status, retry_count, result,
                   agent_calls, h>>

\* A conditional update whose failure is logged and ignored
\* (smartAssistant.py:800-802, 839-841, 866-868).
TryUpdate(p, f, body) ==
    LET applied == ~f /\ TokenMatches(seq_no[p]) IN
    /\ seq_no' = Release(p, applied)
    /\ IF applied
       THEN /\ doc' = body
            /\ h' = Wrote(p, h[p])
       ELSE UNCHANGED <<doc, h>>

\* smartAssistant.py:787-802: status processed is written before the agent
\* runs
PreUpdate(p) ==
    /\ pc[p] = "pre_update"
    /\ UNCHANGED toolVars
    /\ \E f \in FaultChoices :
        /\ Fault(f)
        /\ TryUpdate(p, f, ProcessedDoc(doc))
    /\ pc' = [pc EXCEPT ![p] = "agent"]
    /\ UNCHANGED <<action, current_status, retry_count, result, agent_calls>>

\* smartAssistant.py:871-898: the page returned after the lifecycle code
Return(p) ==
    /\ pc' = [pc EXCEPT ![p] = "done"]
    /\ result' = [result EXCEPT ![p] = ActionProcessed(action[p])]

\* The read of the version token before the last update
\* (smartAssistant.py:819-823 or 846-850); when it fails the update is
\* skipped (839-841, 866-868) and the handler returns.
ReadToken(p, f, next) ==
    IF f
    THEN /\ Return(p)
         /\ UNCHANGED seq_no
    ELSE /\ pc' = [pc EXCEPT ![p] = next]
         /\ seq_no' = [seq_no EXCEPT ![p] = "latest"]
         /\ UNCHANGED result

\* smartAssistant.py:804-823 and 844-850: the agent executes the proposed
\* actions and returns or raises; the handler then reads the version token
\* for the processed update, or in the except handler for the failed update.
\* The agent call touches nothing of the Finding, so it is one step with
\* the read that follows it.
ExecuteActions(p) ==
    /\ pc[p] = "agent"
    /\ UNCHANGED toolVars
    /\ agent_calls' = agent_calls + 1
    /\ \E raises \in BOOLEAN, f \in FaultChoices :
        /\ Fault(f)
        /\ h' = [h EXCEPT ![p] = [@ EXCEPT !.executed = @ + 1,
                                           !.raised = raises]]
        /\ ReadToken(p, f, IF raises THEN "fail_update" ELSE "post_update")
    /\ UNCHANGED <<doc, action, current_status, retry_count>>

\* smartAssistant.py:825-842 and 871-898: record completion, then return
PostUpdate(p) ==
    /\ pc[p] = "post_update"
    /\ UNCHANGED toolVars
    /\ \E f \in FaultChoices :
        /\ Fault(f)
        /\ TryUpdate(p, f, CompletedDoc(doc))
    /\ Return(p)
    /\ UNCHANGED <<action, current_status, retry_count, agent_calls>>

\* smartAssistant.py:844-850: the except handler entered from the re-read
\* of line 774
FailGet(p) ==
    /\ pc[p] = "fail_get"
    /\ UNCHANGED toolVars
    /\ \E f \in FaultChoices :
        /\ Fault(f)
        /\ ReadToken(p, f, "fail_update")
    /\ UNCHANGED <<doc, action, current_status, retry_count, agent_calls, h>>

\* smartAssistant.py:852-869 and 871-898: record the failure, then return
FailUpdate(p) ==
    /\ pc[p] = "fail_update"
    /\ UNCHANGED toolVars
    /\ \E f \in FaultChoices :
        /\ Fault(f)
        /\ TryUpdate(p, f, FailedDoc(doc))
    /\ Return(p)
    /\ UNCHANGED <<action, current_status, retry_count, agent_calls>>

Next ==
    \E p \in Callbacks :
        \/ CheckStatus(p)
        \/ GetLatest(p)
        \/ UpdateDecision(p)
        \/ Refresh(p)
        \/ PreUpdate(p)
        \/ ExecuteActions(p)
        \/ PostUpdate(p)
        \/ FailGet(p)
        \/ FailUpdate(p)

Spec == Init /\ [][Next]_vars

TypeOK ==
    /\ doc.status \in Statuses
    /\ \A p \in Callbacks :
        /\ seq_no[p] \in {"none", "latest", "stale"}
        /\ action[p] \in Actions
        /\ current_status[p] \in Statuses \cup {"unread", "unknown"}
        /\ retry_count[p] \in 0..max_retries

----------------------------------------------------------------------------
(* The lifecycle of section 4.5                                            *)

AllowedEdges ==
    { <<"pending_review", "approved">>, <<"pending_review", "rejected">>,
      <<"approved", "processed">>, <<"approved", "failed">> }

Returned(p) == pc[p] # "done" /\ pc'[p] = "done"

\* C1: every change of the stored status follows one of the edges
\* pending_review->approved, pending_review->rejected, approved->processed,
\* approved->failed.
C1_OnlyAllowedEdges ==
    [][doc'.status # doc.status
         => <<doc.status, doc'.status>> \in AllowedEdges]_vars

\* C2: over all callbacks delivered for the Finding, the agent that executes
\* the proposed actions is invoked at most once.
C2_ExecutedAtMostOnce == agent_calls <= 1

\* C3: of the invocations that saw the Finding pending_review, at most one
\* persists its approved / rejected update; the others never write their
\* status over the winner's.
C3_SingleWinner ==
    Cardinality({p \in Callbacks : /\ current_status[p] = "pending_review"
                                   /\ h[p].persisted # "none"}) <= 1

\* C4: an invocation whose first read sees approved or processed has
\* returned the no-op result, issued no update and not invoked the agent.
C4_NoOpWhenHandled ==
    \A p \in Callbacks :
        current_status[p] \in {"approved", "processed"}
            => /\ pc[p] = "done"
               /\ result[p] = NoActionNeeded
               /\ retry_count[p] = 0 /\ seq_no[p] = "none"
               /\ h[p].persisted = "none"
               /\ h[p].executed = 0

\* a second approve sees processed after the first executed: no-op, and the
\* agent has run once
C4_Witness ==
    \E p, q \in Callbacks :
        /\ p # q
        /\ action[p] = "approve" /\ action[q] = "approve"
        /\ pc[q] = "done" /\ h[q].executed = 1
        /\ current_status[p] = "processed"
        /\ result[p] = NoActionNeeded
        /\ doc.status = "processed"
        /\ agent_calls = 1

\* C5: once the stored status is rejected it stays rejected, and the agent
\* is not invoked.
C5_RejectedIsTerminal ==
    [][doc.status = "rejected"
         => doc'.status = "rejected" /\ agent_calls' = agent_calls]_vars

\* C6: the agent is invoked only by an approve invocation that has itself
\* persisted the approved update; an invocation whose update attempts all
\* failed, or whose action is reject, never invokes it.
C6_ExecuteOnlyAfterApproved ==
    \A p \in Callbacks :
        /\ (pc[p] = "agent" \/ h[p].executed > 0)
              => h[p].persisted = "approved" /\ action[p] = "approve"
        /\ (pc[p] # "idle" /\ action[p] = "reject") => h[p].executed = 0
        /\ result[p] = ErrorResult
              => h[p].executed = 0 /\ h[p].persisted = "none"

\* the agent ran for an approve; a reject was persisted and a third kind of
\* invocation is not needed: the other callback rejected without executing
C6_Witness ==
    \E p, q \in Callbacks :
        /\ h[p].executed = 1 /\ h[p].persisted = "approved"
        /\ action[q] = "reject" /\ h[q].persisted = "rejected"
        /\ pc[q] = "done" /\ h[q].executed = 0

\* C7: an approve invocation that persisted approved returns with the stored
\* status processed or failed.
C7_ResolvedOnReturn ==
    [][\A p \in Callbacks :
         (Returned(p) /\ h'[p].persisted = "approved")
            => doc'.status \in {"processed", "failed"}]_vars

\* C8: when the agent raised in an invocation, nobody else has written the
\* Finding since that invocation began and no store call has failed, the
\* invocation has returned with stored status failed and the error detail
\* recorded.
C8_RaiseEndsFailed ==
    \A p \in Callbacks :
        (pc[p] = "done" /\ h[p].raised /\ ~h[p].interfered /\ faults = 0)
            => doc.status = "failed" /\ doc.error_message

C8_Witness ==
    \E p \in Callbacks :
        /\ pc[p] = "done" /\ h[p].raised
        /\ ~h[p].interfered /\ faults = 0
        /\ doc.status = "failed" /\ doc.error_message

\* C9: an attempt of the approved / rejected update is started only after
\* fewer than 3 failed ones, each with a token read for that attempt; after
\* 3 failed attempts the invocation has returned 500, has not invoked the
\* agent and has written nothing.
C9_BoundedRetry ==
    \A p \in Callbacks :
        /\ pc[p] \in {"latest", "update"} => retry_count[p] < 3
        /\ pc[p] = "update" => seq_no[p] # "none"
        /\ retry_count[p] >= 3
              => pc[p] = "done" /\ result[p] = ErrorResult
        /\ result[p] = ErrorResult
              => /\ retry_count[p] = 3
                 /\ h[p].executed = 0
                 /\ h[p].persisted = "none"

\* three updates were issued and each lost to a concurrent writer
C9_Witness ==
    \E p \in Callbacks :
        /\ retry_count[p] = 3 /\ faults = 0
        /\ result[p] = ErrorResult
        /\ h[p].persisted = "none"

\* the update of line 825 (processed) or 852 (failed) is issued in this step
\* and the store rejects it
UpdateRejected(p) ==
    /\ pc[p] \in {"post_update", "fail_update"}
    /\ (faults' # faults \/ ~TokenMatches(seq_no[p]))

\* C10: when the agent raised, or the update to processed or failed was
\* rejected, the approve invocation returns a failure: neither the result of
\* a successful approval nor the no-op result.
C10_LifecycleErrorVisible ==
    [][\A p \in Callbacks :
         (Returned(p) /\ (h'[p].raised \/ UpdateRejected(p)))
            => result'[p] \notin {ActionProcessed("approve"), NoActionNeeded}]_vars

\* C11: a reject invocation whose first read saw pending_review, with no
\* other writer of the Finding and no failed store call, has on return stored
\* status rejected with human_approved false, has not invoked the agent, and
\* has returned the 200 page that reports the action as rejected.
C11_RejectStored ==
    \A p \in Callbacks :
        (/\ pc[p] = "done" /\ action[p] = "reject"
         /\ current_status[p] = "pending_review"
         /\ ~h[p].interfered /\ faults = 0)
            => /\ doc.status = "rejected"
               /\ doc.human_approved = "false"
               /\ h[p].persisted = "rejected"
               /\ h[p].executed = 0
               /\ result[p] = [statusCode |-> 200, title |-> "Action Rejected"]

C11_Witness ==
    \E p \in Callbacks :
        /\ pc[p] = "done" /\ action[p] = "reject"
        /\ current_status[p] = "pending_review"
        /\ ~h[p].interfered /\ faults = 0
        /\ doc.status = "rejected" /\ doc.human_approved = "false"
        /\ result[p].statusCode = 200 /\ agent_calls = 0

\* C22: status processed is stored only after the agent has returned
\* successfully for the Finding: whenever the stored status is processed,
\* some invocation's agent call has completed without raising.
C22_ProcessedOnlyAfterSuccess ==
    doc.status = "processed"
        => \E p \in Callbacks : h[p].executed > 0 /\ ~h[p].raised

\* C28: an invocation whose first read of the Finding failed, so that the
\* current status is unknown to it, applies no status update and does not
\* call the agent.
C28_UnknownStatusDoesNothing ==
    \A p \in Callbacks :
        current_status[p] = "unknown"
            => h[p].persisted = "none" /\ h[p].executed = 0

----------------------------------------------------------------------------
(* Storing findings: AgentFindingsStore.store_finding and the agent tool   *)
(* store_agent_finding                                                     *)

\* store_agent_finding.py:95-102: the finding the tool prepares; the caller's
\* status argument goes in as it is
ToolFinding(s) == [agent_id |-> "agent", status |-> s]

\* The findings a direct caller of store_finding may hand over: the required
\* fields, with or without an id and with or without a status.
CallerFindings ==
    {[agent_id |-> "agent"]}
        \cup {[agent_id |-> "agent", status |-> s] : s \in ToolStatuses}
        \cup {[agent_id |-> "agent", id |-> i] : i \in FindingIds}
        \cup {[agent_id |-> "agent", id |-> i, status |-> s] :
                 i \in FindingIds, s \in ToolStatuses}

\* agent_findings_store.py:114-126: id and status are filled in only when
\* the finding does not carry them
Prepared(finding, uuid) ==
    (finding @@ [id |-> uuid]) @@ [status |-> "pending_review"]

\* uuid.uuid4() (agent_findings_store.py:116): an id no document has
FreshIds == FindingIds \ DOMAIN findings

\* agent_findings_store.py:128-140: index the document under its id
\* (an existing document of that id is replaced), or raise
store_finding(finding, uuid, fails) ==
    LET body == Prepared(finding, uuid) IN
    IF fails
    THEN UNCHANGED findings
    ELSE findings' = (body.id :> body) @@ findings

\* store_agent_finding.py:87-134: the tool returns a success or an error
\* dictionary
StoreAgentFinding ==
    /\ \E s \in ToolStatuses, uuid \in FreshIds, fails \in BOOLEAN :
        /\ store_finding(ToolFinding(s), uuid, fails)
        /\ store_result' =
              IF fails THEN [status |-> "error", finding_id |-> 0]
              ELSE [status |-> "success", finding_id |-> uuid]
    /\ UNCHANGED <<lifecycleVars, corrVars, impactVars, cacheVars,
                   checkVars>>

\* agent_findings_store.py:83-140, called with the caller's own finding:
\* the method returns the id or raises
StoreFinding ==
    /\ \E finding \in CallerFindings, fails \in BOOLEAN :
       \E uuid \in IF "id" \in DOMAIN finding THEN {finding.id} ELSE FreshIds :
        /\ store_finding(finding, uuid, fails)
        /\ store_result' =
              IF fails THEN [status |-> "raised", finding_id |-> 0]
              ELSE [status |-> "returned",
                    finding_id |-> Prepared(finding, uuid).id]
    /\ UNCHANGED <<lifecycleVars, corrVars, impactVars, cacheVars,
                   checkVars>>

\* The updates a direct caller of update_finding may hand over
CallerUpdates == {[status |-> "resolved"], [tags |-> "text"]}

\* add_human_feedback's approved argument: None, True or False
ApprovedArguments == {"None", "True", "False"}

\* agent_findings_store.py:161-182: a partial update of the document, with
\* no if_seq_no / if_primary_term; raises when the id has no document or the
\* store fails
update_finding(finding_id, updates, fails) ==
    IF fails \/ finding_id \notin DOMAIN findings
    THEN /\ UNCHANGED findings
         /\ store_result' = [status |-> "update raised",
                             finding_id |-> finding_id]
    ELSE /\ findings' = [findings EXCEPT
                            ![finding_id] = updates @@ findings[finding_id]]
         /\ store_result' = [status |-> "updated", finding_id |-> finding_id]

\* agent_findings_store.py:195-199
feedback_updates(approved_) ==
    IF approved_ = "None" THEN [human_feedback |-> "text"]
    ELSE [human_feedback |-> "text", human_approved |-> approved_,
          status |-> IF approved_ = "True" THEN "approved" ELSE "rejected"]

\* agent_findings_store.py:161-182, called with the caller's own updates
UpdateFinding ==
    /\ \E i \in FindingIds, updates \in CallerUpdates, fails \in BOOLEAN :
          update_finding(i, updates, fails)
    /\ UNCHANGED <<lifecycleVars, corrVars, impactVars, cacheVars,
                   checkVars>>

\* agent_findings_store.py:184-201
AddHumanFeedback ==
    /\ \E i \in FindingIds, approved_ \in ApprovedArguments,
          fails \in BOOLEAN :
          update_finding(i, feedback_updates(approved_), fails)
    /\ UNCHANGED <<lifecycleVars, corrVars, impactVars, cacheVars,
                   checkVars>>

NextStore ==
    StoreAgentFinding \/ StoreFinding \/ UpdateFinding \/ AddHumanFeedback

SpecStore == Init /\ [][NextStore]_vars

\* C12: every Finding newly persisted by store_finding / store_agent_finding
\* (a document under an id that had none) has status pending_review.
C12_NewFindingPending ==
    [][\A i \in FindingIds :
         (i \notin DOMAIN findings /\ i \in DOMAIN findings')
            => findings'[i].status = "pending_review"]_vars

\* C23: the status of a stored Finding is changed only by the conditional
\* updates of the approval callbacks: no operation of the findings store
\* (store_finding with the id of a stored Finding, update_finding,
\* add_human_feedback) changes or resets it.
C23_StoreKeepsStatus ==
    [][\A i \in DOMAIN findings :
         i \in DOMAIN findings' /\ findings'[i].status = findings[i].status]_vars

----------------------------------------------------------------------------
(* correlate_errors_across_services (agent_tools/correlate_errors.py)      *)

\* opensearch_client.py:41-48: the client keeps the "opensearch" part of the
\* secret
OpenSearchClientConfig(sec) == [opensearch |-> sec.opensearch]

\* dict.get(key, default)
Get(d, key, default) == IF key \in DOMAIN d THEN d[key] ELSE default

\* correlate_errors.py:77  client.config.get("services", [])
services_config(sec) == Get(OpenSearchClientConfig(sec), "services", {})

\* correlate_errors.py:78-81
service_dependencies(cfg) ==
    [n \in {service.name : service \in cfg} |->
        (CHOOSE service \in cfg : service.name = n).dependencies]

dependency_graphMut(sd) ==
    [nodes |-> DOMAIN sd,
     edges |-> UNION {{<<n, dep>> : dep \in sd[n]} : n \in DOMAIN sd}]

\* correlate_errors.py:84-88: nx.DiGraph with add_node / add_edge
dependency_graph(sd) ==
    [nodes |-> DOMAIN sd \cup UNION {sd[n] : n \in DOMAIN sd},
     edges |-> UNION {{<<n, dep>> : dep \in sd[n]} : n \in DOMAIN sd}]

successors(G, n) == {e[2] : e \in {e \in G.edges : e[1] = n}}

RECURSIVE bfs_edgesMut(_, _, _, _)
bfs_edgesMut(G, visited, frontier, fuel) ==
    IF frontier = {} THEN [completed |-> TRUE, visited |-> visited]
    ELSE IF fuel = 0 THEN [completed |-> FALSE, visited |-> visited]
    ELSE LET next == UNION {successors(G, n) : n \in frontier}
         IN  bfs_edgesMut(G, visited \cup next, next, fuel - 1)

\* nx.bfs_edges: breadth-first traversal that skips the nodes already
\* visited, one level per round; fuel bounds the number of rounds
RECURSIVE bfs_edges(_, _, _, _)
bfs_edges(G, visited, frontier, fuel) ==
    IF frontier = {} THEN [completed |-> TRUE, visited |-> visited]
    ELSE IF fuel = 0 THEN [completed |-> FALSE, visited |-> visited]
    ELSE LET next == UNION {successors(G, n) : n \in frontier} \ visited
         IN  bfs_edges(G, visited \cup next, next, fuel - 1)

\* nx.descendants(G, source): the nodes reached from source, source itself
\* excluded; NetworkXError when source is not a node of G
descendants(G, source) ==
    IF source \notin G.nodes
    THEN [raised |-> TRUE, completed |-> TRUE, set |-> {}]
    ELSE LET t == bfs_edges(G, {source}, {source}, Cardinality(G.nodes))
         IN  [raised |-> FALSE, completed |-> t.completed,
              set |-> t.visited \ {source}]

\* correlate_errors.py:188-192: except nx.NetworkXError: all_deps = []
all_deps(G, service) ==
    LET d == descendants(G, service)
    IN  IF d.raised THEN {} ELSE d.set

\* correlate_errors.py:145-172: one entry per bucket of the response
service_errors(buckets) ==
    [s \in {s \in Services : buckets[s] > 0} |-> [error_count |-> buckets[s]]]

problematic_servicesMut(se, threshold) ==
    {s \in DOMAIN se : se[s].error_count > threshold}

\* correlate_errors.py:175-179
problematic_services(se, threshold) ==
    {s \in DOMAIN se : se[s].error_count >= threshold}

\* correlate_errors.py:195
failing_deps(G, service, P) == all_deps(G, service) \cap P

cascading_failuresMut(G, se, P) ==
    {[service |-> s, error_count |-> se[s].error_count,
      failing_dependencies |->
          {[service |-> dep, error_count |-> se[dep].error_count] :
               dep \in failing_deps(G, s, P)}] :
        s \in P}

\* correlate_errors.py:197-210
cascading_failures(G, se, P) ==
    {[service |-> s, error_count |-> se[s].error_count,
      failing_dependencies |->
          {[service |-> dep, error_count |-> se[dep].error_count] :
               dep \in failing_deps(G, s, P)}] :
        s \in {s \in P : failing_deps(G, s, P) # {}}}

root_causesMut(G, sd, se, P) ==
    {[service |-> s, error_count |-> se[s].error_count,
      dependent_services |-> {svc \in DOMAIN sd : s \in sd[svc]}] :
        s \in {s \in P : failing_deps(G, s, P) # {}}}

\* correlate_errors.py:211-220
root_causes(G, sd, se, P) ==
    {[service |-> s, error_count |-> se[s].error_count,
      dependent_services |-> {svc \in DOMAIN sd : s \in sd[svc]}] :
        s \in {s \in P : failing_deps(G, s, P) = {}}}

\* every traversal the classification asks for comes back
Terminates(G, P) == \A s \in P : descendants(G, s).completed

\* correlate_errors.py:223-241: the value returned on success
CorrelationResult(sec, buckets, threshold) ==
    LET sd == service_dependencies(services_config(sec))
        G == dependency_graph(sd)
        se == service_errors(buckets)
        P == problematic_services(se, threshold)
    IN  IF ~Terminates(G, P) THEN [returned |-> FALSE, hangs |-> TRUE]
        ELSE
        [correlation_summary |->
            [total_services_analyzed |-> Cardinality(DOMAIN se),
             problematic_services_count |-> Cardinality(P),
             potential_root_causes_count |->
                 Cardinality(root_causes(G, sd, se, P)),
             cascading_failures_count |->
                 Cardinality(cascading_failures(G, se, P))],
         service_errors |-> se,
         problematic_services |-> P,
         potential_root_causes |-> root_causes(G, sd, se, P),
         cascading_failures |-> cascading_failures(G, se, P),
         service_dependencies |-> sd]

\* correlate_errors.py:243-255: the value returned from the except handler
CorrelationError ==
    [error |-> "query failed",
     correlation_summary |->
        [total_services_analyzed |-> 0, problematic_services_count |-> 0]]

InitCorr ==
    /\ InitLifecycle
    /\ StoreIdle
    /\ secret \in {[opensearch |-> "endpoint", services |-> cfg] :
                      cfg \in ServiceConfigs}
    /\ service_buckets \in [Services -> Counts]
    /\ error_threshold \in Thresholds
    /\ correlation = NoCorrelation
    /\ ImpactIdle
    /\ CacheIdle
    /\ CheckIdle

\* correlate_errors.py:16-255: one call of the tool; the search of line
\* 139-142 returns the buckets or raises
Correlate ==
    /\ correlation = NoCorrelation
    /\ \E fails \in BOOLEAN :
        correlation' =
            IF fails THEN CorrelationError
            ELSE CorrelationResult(secret, service_buckets, error_threshold)
    /\ UNCHANGED <<secret, service_buckets, error_threshold>>
    /\ UNCHANGED <<lifecycleVars, storeVars, impactVars, cacheVars,
                   checkVars>>

NextCorr == Correlate

SpecCorr == InitCorr /\ [][NextCorr]_vars

----------------------------------------------------------------------------
(* Root causes and cascading failures (sections 4.1 and 4.4)               *)

\* the tool returned a correlation result, not an error
Succeeded == "problematic_services" \in DOMAIN correlation

Subjects(list) == {r.service : r \in list}

\* the depends-on edges of the configured services
DependsOn ==
    UNION {{<<svc.name, dep>> : dep \in svc.dependencies} :
              svc \in secret.services}

RECURSIVE Reach(_, _)
Reach(S, k) ==
    IF k = 0 THEN S
    ELSE Reach(S \cup {e[2] : e \in {e \in DependsOn : e[1] \in S}}, k - 1)

\* the services reached from s over one or more depends-on edges
TransitiveDeps(s) ==
    Reach({e[2] : e \in {e \in DependsOn : e[1] = s}}, Cardinality(Services))

\* C13: in a correlation result every problematic service is the subject of
\* exactly one entry, either of potential_root_causes or of
\* cascading_failures, and nothing else is the subject of an entry.
C13_Partition ==
    Succeeded =>
        LET RC == correlation.potential_root_causes
            CF == correlation.cascading_failures
        IN  /\ Subjects(RC) \cap Subjects(CF) = {}
            /\ Subjects(RC) \cup Subjects(CF) = correlation.problematic_services
            /\ Cardinality(RC) = Cardinality(Subjects(RC))
            /\ Cardinality(CF) = Cardinality(Subjects(CF))

\* two problematic services and one below the threshold
C13_Witness ==
    /\ Succeeded
    /\ Cardinality(correlation.problematic_services) = 2
    /\ \E s \in Services :
        /\ service_buckets[s] > 0
        /\ s \notin correlation.problematic_services
        /\ s \notin Subjects(correlation.potential_root_causes)

\* C14: a problematic service s is reported as a cascading failure exactly
\* when some service reached from s over depends-on edges of the configured
\* graph is problematic, with exactly those services as its failing
\* dependencies; otherwise it is reported as a potential root cause.
C14_CascadingIffReachable ==
    Succeeded =>
        \A s \in correlation.problematic_services :
            LET F == TransitiveDeps(s) \cap correlation.problematic_services
                CF == correlation.cascading_failures
            IN  IF F # {}
                THEN /\ s \in Subjects(CF)
                     /\ \A c \in CF :
                          c.service = s
                              => Subjects(c.failing_dependencies) = F
                ELSE s \in Subjects(correlation.potential_root_causes)

\* C15 as stated: a service is in the problematic set if and only if its
\* count in the window is at least the threshold, for every threshold.
C15_Original ==
    Succeeded =>
        \A s \in Services :
            s \in correlation.problematic_services
                <=> service_buckets[s] >= error_threshold

\* C15: a service with at least one event in the window is in the
\* problematic set if and only if its count is at least the threshold (a
\* count equal to the threshold is in); a service without events in the
\* window is never in it.
C15_ThresholdInclusive ==
    Succeeded =>
        \A s \in Services :
            s \in correlation.problematic_services
                <=> (service_buckets[s] >= error_threshold
                     /\ service_buckets[s] > 0)

\* one service exactly at the threshold is in, one below it is out
C15_Witness ==
    /\ Succeeded
    /\ \E s, t \in Services :
        /\ service_buckets[s] = error_threshold
        /\ s \in correlation.problematic_services
        /\ service_buckets[t] > 0
        /\ service_buckets[t] < error_threshold
        /\ t \notin correlation.problematic_services

\* C16: A depends on B, counts A = 8 and B = 12, threshold 5: B is reported
\* as a potential root cause and A as a cascading failure whose failing
\* dependencies are exactly {B}.
C16_Scenario ==
    (/\ Succeeded
     /\ secret.services = {[name |-> "A", dependencies |-> {"B"}],
                           [name |-> "B", dependencies |-> {}]}
     /\ service_buckets = [s \in Services |->
                             IF s = "A" THEN 8 ELSE IF s = "B" THEN 12 ELSE 0]
     /\ error_threshold = 5)
        => /\ Subjects(correlation.potential_root_causes) = {"B"}
           /\ Subjects(correlation.cascading_failures) = {"A"}
           /\ \A c \in correlation.cascading_failures :
                Subjects(c.failing_dependencies) = {"B"}

\* C17: on the graph built from any configuration, cyclic ones included, the
\* traversal behind descendants comes to an end for every service with a
\* set of nodes of the graph (or the error for a service that is no node),
\* and a call whose query succeeded returns a result that classifies every
\* problematic service.
C17_CyclesTerminate ==
    LET G == dependency_graph(service_dependencies(secret.services)) IN
    /\ \A s \in Services :
        LET d == descendants(G, s)
        IN  /\ d.completed
            /\ d.set \subseteq G.nodes
            /\ d.raised <=> s \notin G.nodes
    /\ correlation # NoCorrelation
        => \/ correlation = CorrelationError
           \/ /\ Succeeded
              /\ Subjects(correlation.potential_root_causes)
                    \cup Subjects(correlation.cascading_failures)
                        = correlation.problematic_services

\* A and B depend on each other, C depends on itself, all are problematic
C17_Witness ==
    /\ secret.services = {[name |-> "A", dependencies |-> {"B"}],
                          [name |-> "B", dependencies |-> {"A"}],
                          [name |-> "C", dependencies |-> {"C"}]}
    /\ Succeeded
    /\ correlation.problematic_services = Services
    /\ descendants(dependency_graph(service_dependencies(secret.services)),
                   "A").set = {"B"}

\* the dependency names of the configuration that are no configured service
UnknownDependencies ==
    UNION {svc.dependencies : svc \in secret.services}
        \ {svc.name : svc \in secret.services}

\* C25: on the graph built from any configuration, a dependency name that
\* is no configured service is a node without descendants, the traversal
\* from a service that depends on it comes back with it, and a service that
\* is no node of the graph has no dependencies; a call whose query succeeded
\* returns a result in which every problematic service that is no node of
\* the configured graph is a potential root cause.
C25_ConfigurationGapTolerated ==
    LET sd == service_dependencies(secret.services)
        G == dependency_graph(sd)
    IN  /\ \A dep \in UnknownDependencies :
              descendants(G, dep) =
                  [raised |-> FALSE, completed |-> TRUE, set |-> {}]
        /\ \A s \in DOMAIN sd :
              LET d == descendants(G, s)
              IN  /\ ~d.raised
                  /\ d.completed
                  /\ sd[s] \subseteq d.set \cup {s}
        /\ \A s \in Services \ G.nodes : all_deps(G, s) = {}
        /\ correlation # NoCorrelation
              => \/ correlation = CorrelationError
                 \/ /\ Succeeded
                    /\ \A s \in correlation.problematic_services :
                          s \notin G.nodes
                              => s \in Subjects(
                                      correlation.potential_root_causes)

\* A depends on B, which is not configured; B and C (no node of the graph)
\* are problematic
C25_Witness ==
    /\ secret.services = {[name |-> "A", dependencies |-> {"B"}]}
    /\ UnknownDependencies = {"B"}
    /\ Succeeded
    /\ {"B", "C"} \subseteq correlation.problematic_services
    /\ {"B", "C"} \subseteq Subjects(correlation.potential_root_causes)

\* The graph of correlate_errors.py:83-88 for the configured services, and
\* the classification of 181-220 on a graph G for the counts of the window.
ConfiguredGraph == dependency_graph(service_dependencies(secret.services))

Problematic ==
    problematic_services(service_errors(service_buckets), error_threshold)

RootCausesOn(G) ==
    Subjects(root_causes(G, service_dependencies(secret.services),
                         service_errors(service_buckets), Problematic))

CascadingOn(G) ==
    Subjects(cascading_failures(G, service_errors(service_buckets),
                                Problematic))

\* a root cause exists, and below every cascading failure
HasRootCauses(G) ==
    Problematic # {}
        => /\ RootCausesOn(G) # {}
           /\ \A s \in CascadingOn(G) :
                 all_deps(G, s) \cap RootCausesOn(G) # {}

\* the same for the result the tool returned
ResultHasRootCauses ==
    (Succeeded /\ correlation.problematic_services # {})
        => /\ correlation.potential_root_causes # {}
           /\ \A c \in correlation.cascading_failures :
                 TransitiveDeps(c.service)
                     \cap Subjects(correlation.potential_root_causes) # {}

\* two different problematic services are transitive dependencies of each
\* other
MutualDependency ==
    \E s, t \in Problematic :
        s # t /\ t \in TransitiveDeps(s) /\ s \in TransitiveDeps(t)

----------------------------------------------------------------------------
(* check_recent_deployment (agent_tools/check_recent_deployment.py)        *)

Max(a, b) == IF a >= b THEN a ELSE b

\* check_recent_deployment.py:218
error_change(before, after) == after - before

\* check_recent_deployment.py:219-221: the quotient times 100, kept as a
\* fraction; for window counts the float the code computes compares with 20
\* as the exact value does
error_change_percent(before, after) ==
    [num |-> (after - before) * 100, den |-> Max(1, before)]

\* abs(q) of a fraction with positive denominator
Abs(q) == [q EXCEPT !.num = IF @ < 0 THEN 0 - @ ELSE @]

\* q > n for a fraction with positive denominator
GreaterThan(q, n) == q.num > n * q.den

impactMut(before, after) ==
    IF /\ error_change(before, after) > 0
       /\ error_change_percent(before, after).num
             >= 20 * error_change_percent(before, after).den
    THEN "negative"
    ELSE IF /\ error_change(before, after) < 0
            /\ GreaterThan(Abs(error_change_percent(before, after)), 20)
         THEN "positive"
         ELSE "none"

\* check_recent_deployment.py:224-228
impact(before, after) ==
    IF /\ error_change(before, after) > 0
       /\ GreaterThan(error_change_percent(before, after), 20)
    THEN "negative"
    ELSE IF /\ error_change(before, after) < 0
            /\ GreaterThan(Abs(error_change_percent(before, after)), 20)
         THEN "positive"
         ELSE "none"

\* check_recent_deployment.py:231-250: the entry appended for one deployment
ImpactEntry(hit) ==
    [service |-> hit.service,
     before_window |-> [error_count |-> hit.before],
     after_window |-> [error_count |-> hit.after],
     error_change |-> error_change(hit.before, hit.after),
     error_change_percent |-> error_change_percent(hit.before, hit.after),
     impact |-> impact(hit.before, hit.after)]

\* check_recent_deployment.py:128-133: the services in the order in which
\* their first deployment log was found
RECURSIVE ServiceOrder(_)
ServiceOrder(hits) ==
    IF hits = <<>> THEN <<>>
    ELSE LET rest == ServiceOrder(SubSeq(hits, 1, Len(hits) - 1))
             last == hits[Len(hits)].service
         IN  IF \E k \in 1..Len(rest) : rest[k] = last
             THEN rest ELSE Append(rest, last)

RECURSIVE impact_analysisMut(_, _)
impact_analysisMut(order, hits) ==
    IF order = <<>> THEN <<>>
    ELSE LET of_service(hit) == hit.service = Head(order)
         IN  <<ImpactEntry(SelectSeq(hits, of_service)[1])>>
                 \o impact_analysisMut(Tail(order), hits)

\* check_recent_deployment.py:136-250: for each service, for each of its
\* deployments, one entry
RECURSIVE impact_analysis(_, _)
impact_analysis(order, hits) ==
    IF order = <<>> THEN <<>>
    ELSE LET of_service(hit) == hit.service = Head(order)
             entries == [k \in 1..Len(SelectSeq(hits, of_service)) |->
                            ImpactEntry(SelectSeq(hits, of_service)[k])]
         IN  entries \o impact_analysis(Tail(order), hits)

CountImpact(analysis, kind) ==
    Cardinality({k \in 1..Len(analysis) : analysis[k].impact = kind})

\* check_recent_deployment.py:253-269: the value returned on success
DeploymentResult(hits) ==
    LET analysis == impact_analysis(ServiceOrder(hits), hits) IN
    [summary |->
        [total_deployments |-> Len(hits),
         services_with_deployments |-> Len(ServiceOrder(hits)),
         deployments_with_negative_impact |-> CountImpact(analysis, "negative"),
         deployments_with_positive_impact |-> CountImpact(analysis, "positive"),
         deployments_with_no_impact |-> CountImpact(analysis, "none")],
     deployments |-> [k \in 1..Len(hits) |-> [service |-> hits[k].service]],
     impact_analysis |-> analysis]

\* check_recent_deployment.py:271-283: the value returned from the except
\* handler
DeploymentError ==
    [error |-> "query failed",
     summary |-> [total_deployments |-> 0],
     deployments |-> <<>>,
     impact_analysis |-> <<>>]

InitImpact ==
    /\ InitLifecycle
    /\ StoreIdle
    /\ CorrIdle
    /\ \E n \in LogLengths : deployment_hits \in DeploymentLogs(n)
    /\ deployment_check = NoDeploymentCheck
    /\ CacheIdle
    /\ CheckIdle

\* check_recent_deployment.py:66-283: one call of the tool; one of its
\* searches may raise
CheckRecentDeployment ==
    /\ deployment_check = NoDeploymentCheck
    /\ \E fails \in BOOLEAN :
        deployment_check' =
            IF fails THEN DeploymentError
            ELSE DeploymentResult(deployment_hits)
    /\ UNCHANGED deployment_hits
    /\ UNCHANGED <<lifecycleVars, storeVars, corrVars, cacheVars, checkVars>>

NextImpact == CheckRecentDeployment

SpecImpact == InitImpact /\ [][NextImpact]_vars

\* C18: every assessment of a successful call has exactly one of the impacts
\* negative, positive, none: negative iff the count rose by more than 20% of
\* max(1, before), positive iff it fell by more than 20% of it, none
\* otherwise, a change of exactly 20% included; before 10 with after 13, 7,
\* 11 gives negative, positive, none.
C18_ImpactClassification ==
    "impact_analysis" \in DOMAIN deployment_check =>
        \A k \in 1..Len(deployment_check.impact_analysis) :
            LET e == deployment_check.impact_analysis[k]
                b == e.before_window.error_count
                a == e.after_window.error_count
                m == IF b < 1 THEN 1 ELSE b
            IN  /\ e.impact \in {"negative", "positive", "none"}
                /\ e.impact = "negative" <=> 5 * (a - b) > m
                /\ e.impact = "positive" <=> 5 * (b - a) > m
                /\ (5 * (a - b) = m \/ 5 * (b - a) = m) => e.impact = "none"
                /\ (b = 10 /\ a = 13) => e.impact = "negative"
                /\ (b = 10 /\ a = 7) => e.impact = "positive"
                /\ (b = 10 /\ a = 11) => e.impact = "none"

\* two deployments of one service: a rise of exactly 20% is none, the rise
\* from 10 to 13 is negative
C18_Witness ==
    /\ "impact_analysis" \in DOMAIN deployment_check
    /\ Len(deployment_check.impact_analysis) = 2
    /\ deployment_check.impact_analysis[1].before_window.error_count = 10
    /\ deployment_check.impact_analysis[1].after_window.error_count = 12
    /\ deployment_check.impact_analysis[1].impact = "none"
    /\ deployment_check.impact_analysis[2].before_window.error_count = 10
    /\ deployment_check.impact_analysis[2].after_window.error_count = 13
    /\ deployment_check.impact_analysis[2].impact = "negative"

\* the deployment tool returned a result, not an error
DeploymentSucceeded ==
    /\ "impact_analysis" \in DOMAIN deployment_check
    /\ "error" \notin DOMAIN deployment_check

\* the number of elements of the sequence q that satisfy Test
CountOf(q, Test(_)) == Cardinality({k \in 1..Len(q) : Test(q[k])})

\* C26: a result of check_recent_deployment has exactly one impact entry
\* for each deployment log found, with the counts of that log (two logs of
\* one service give two entries), and its three impact counts add up to
\* total_deployments.
C26_OneAssessmentPerDeployment ==
    DeploymentSucceeded =>
        LET analysis == deployment_check.impact_analysis
            summary == deployment_check.summary
        IN  /\ Len(analysis) = Len(deployment_hits)
            /\ \A j \in 1..Len(deployment_hits) :
                  LET x == deployment_hits[j]
                      IsLog(hit) == hit = x
                      IsEntry(e) ==
                          /\ e.service = x.service
                          /\ e.before_window.error_count = x.before
                          /\ e.after_window.error_count = x.after
                  IN  CountOf(analysis, IsEntry) = CountOf(deployment_hits, IsLog)
            /\ summary.total_deployments = Len(deployment_hits)
            /\ summary.deployments_with_negative_impact
                  + summary.deployments_with_positive_impact
                  + summary.deployments_with_no_impact
                      = summary.total_deployments

\* two deployments of service A, one followed by more errors and one by
\* fewer: two entries, one negative and one positive
C26_Witness ==
    /\ DeploymentSucceeded
    /\ Len(deployment_hits) = 2
    /\ deployment_hits[1].service = "A"
    /\ deployment_hits[2].service = "A"
    /\ Len(deployment_check.impact_analysis) = 2
    /\ deployment_check.summary.deployments_with_negative_impact = 1
    /\ deployment_check.summary.deployments_with_positive_impact = 1
    /\ deployment_check.summary.total_deployments = 2

----------------------------------------------------------------------------
(* get_from_cache / add_to_cache (smartAssistant.py:120-137)               *)

\* the cache keys of the deployment lookup of two services over one window
CacheKeys == {<<"deployment", service, 0>> : service \in {"A", "B"}}

\* what the deployment lookup caches (smartAssistant.py:313-323)
CacheData == {[found |-> TRUE], [found |-> FALSE]}

\* the clock is read just before, at, and just after a time to live has
\* passed
TickSteps == {CACHE_TTL - 1, CACHE_TTL, CACHE_TTL + 1}

get_from_cacheMut(cache, cache_key, time) ==
    IF cache_key \in DOMAIN cache /\ cache[cache_key].expiry >= time
    THEN cache[cache_key].data
    ELSE None

\* smartAssistant.py:124-130
get_from_cache(cache, cache_key, time) ==
    IF cache_key \in DOMAIN cache /\ cache[cache_key].expiry > time
    THEN cache[cache_key].data
    ELSE None

\* smartAssistant.py:132-137
add_to_cache(cache, cache_key, data, time) ==
    (cache_key :> [data |-> data, expiry |-> time + CACHE_TTL]) @@ cache

AddToCache ==
    /\ \E cache_key \in CacheKeys, data \in CacheData :
        /\ query_cache' = add_to_cache(query_cache, cache_key, data, now)
        /\ stored' = (cache_key :> [at |-> now, data |-> data]) @@ stored
    /\ UNCHANGED <<now, cached_result, lookup>>
    /\ UNCHANGED <<lifecycleVars, storeVars, corrVars, impactVars, checkVars>>

GetFromCache ==
    /\ \E cache_key \in CacheKeys :
        cached_result' =
            [cache_key |-> cache_key, at |-> now,
             value |-> get_from_cache(query_cache, cache_key, now)]
    /\ UNCHANGED <<query_cache, now, stored, lookup>>
    /\ UNCHANGED <<lifecycleVars, storeVars, corrVars, impactVars, checkVars>>

\* time.time() moves on
Tick ==
    /\ \E d \in TickSteps :
        /\ now + d <= MaxNow
        /\ now' = now + d
    /\ UNCHANGED <<query_cache, cached_result, stored, lookup>>
    /\ UNCHANGED <<lifecycleVars, storeVars, corrVars, impactVars, checkVars>>

NextCache == AddToCache \/ GetFromCache \/ Tick

SpecCache == Init /\ [][NextCache]_vars

\* C20: get_from_cache returns the value stored last for the key at time t
\* when it is called before t + 300 s and None when it is called at or after
\* t + 300 s (or nothing was stored); a read changes no entry, and an entry
\* stays in the map, unchanged, until add_to_cache overwrites it.
C20_CacheTTL ==
    [][/\ cached_result' # cached_result
          => /\ cached_result'.value =
                   IF /\ cached_result'.cache_key \in DOMAIN stored
                      /\ now < stored[cached_result'.cache_key].at + 300
                   THEN stored[cached_result'.cache_key].data
                   ELSE None
             /\ query_cache' = query_cache
       /\ \A cache_key \in DOMAIN query_cache :
            /\ cache_key \in DOMAIN query_cache'
            /\ query_cache'[cache_key] # query_cache[cache_key]
                  => /\ stored' # stored
                     /\ stored'[cache_key].at = now]_vars

\* a read exactly 300 s after the value was stored returns None and the
\* expired entry is still in the map
C20_Witness ==
    \E cache_key \in DOMAIN query_cache :
        /\ cached_result.cache_key = cache_key
        /\ cached_result.at = stored[cache_key].at + 300
        /\ cached_result.value = None
        /\ now = cached_result.at
        /\ query_cache[cache_key].data = stored[cache_key].data
        /\ query_cache[cache_key].expiry = now

----------------------------------------------------------------------------
(* The periodic error check: check_for_errors, get_baseline_error_rates,   *)
(* check_recent_deployment and the periodic branch of lambda_handler       *)
(* (smartAssistant.py)                                                     *)

CheckServices == {"A", "B"}

\* smartAssistant.py:919  int(os.environ.get('ERROR_THRESHOLD', '1'))
CheckThresholds == {1, 2}

\* the baseline query raises, has no day bucket, or has day buckets
BaselineOutcomes == {"fails", "no_buckets", "buckets"}

\* the deployment query raises, has no hit, or has a hit
DeploymentOutcomes == {"fails", "no_hits", "hit"}

WithErrors(by_service) == {s \in CheckServices : by_service[s] > 0}

\* doc_count of the day buckets of a baseline query that has some: an
\* average of 0, of 0.1 and of 2 errors per minute
DayBucketChoices == {<<0>>, <<144>>, <<1440, 4320>>}

\* smartAssistant.py:425: the number of minute buckets with a doc_count
\* above 0, for the doc_counts c of the services
MinutesWithData(c) ==
    IF c["A"] + c["B"] = 0 THEN {0} ELSE 1..(c["A"] + c["B"])

\* What the store answers during one run: the client cannot be created, the
\* errors query raises, or it returns the doc_count of each service and the
\* minute buckets, and then for each service having a bucket the baseline
\* and the deployment query have their outcomes.
StoreResponses ==
    {[errors |-> "no_client"], [errors |-> "fails"]} \cup
    UNION {{[errors |-> "ok", by_service |-> c, minutes_with_data |-> m,
             baseline |-> b, day_buckets |-> q, deployment |-> d] :
                m \in MinutesWithData(c),
                b \in [WithErrors(c) -> BaselineOutcomes],
                q \in DayBucketChoices,
                d \in [WithErrors(c) -> DeploymentOutcomes]} :
           c \in [CheckServices -> 0..2]}

\* a float, kept as a fraction
Frac(n, d) == IF n = 0 THEN [num |-> 0, den |-> 1] ELSE [num |-> n, den |-> d]

\* smartAssistant.py:246 and 268
ZeroBaseline ==
    [avg_per_day |-> Frac(0, 1), avg_per_hour |-> Frac(0, 1),
     avg_per_minute |-> Frac(0, 1)]

RECURSIVE SumSeq(_)
SumSeq(q) == IF q = <<>> THEN 0 ELSE Head(q) + SumSeq(Tail(q))

\* smartAssistant.py:244-260
Baseline(buckets) ==
    IF buckets = <<>> THEN ZeroBaseline
    ELSE [avg_per_day |-> Frac(SumSeq(buckets), Len(buckets)),
          avg_per_hour |-> Frac(SumSeq(buckets), Len(buckets) * 24),
          avg_per_minute |-> Frac(SumSeq(buckets), Len(buckets) * 24 * 60)]

\* smartAssistant.py:203-268: the value returned and the cache afterwards
get_baseline_error_rates(cache, service, time, outcome, buckets) ==
    LET cache_key == <<"baseline", service, time>>
        cached == get_from_cache(cache, cache_key, time)
    IN  IF cached # None
        THEN [value |-> cached, cache |-> cache, queried |-> FALSE]
        ELSE IF outcome = "fails"
        THEN [value |-> ZeroBaseline, cache |-> cache, queried |-> TRUE]
        ELSE IF outcome = "no_buckets"
        THEN [value |-> Baseline(<<>>), cache |-> cache, queried |-> TRUE]
        ELSE [value |-> Baseline(buckets),
              cache |-> add_to_cache(cache, cache_key, Baseline(buckets),
                                     time),
              queried |-> TRUE]

\* smartAssistant.py:269-328
check_recent_deployment(cache, service, time, outcome) ==
    LET cache_key == <<"deployment", service, time>>
        cached == get_from_cache(cache, cache_key, time)
        deployment == [found |-> outcome = "hit"]
    IN  IF cached # None
        THEN [value |-> cached, cache |-> cache, queried |-> FALSE]
        ELSE IF outcome = "fails"
        THEN [value |-> [found |-> FALSE], cache |-> cache,
              queried |-> TRUE]
        ELSE [value |-> deployment,
              cache |-> add_to_cache(cache, cache_key, deployment, time),
              queried |-> TRUE]

\* smartAssistant.py:429-475: one entry per bucket of by_service, each with
\* its baseline and its recent deployment
RECURSIVE services_with_errors(_, _, _, _)
services_with_errors(todo, cache, time, resp) ==
    IF todo = {} THEN [value |-> <<>>, cache |-> cache]
    ELSE LET s == CHOOSE x \in todo : TRUE
             b == get_baseline_error_rates(cache, s, time, resp.baseline[s],
                                           resp.day_buckets)
             d == check_recent_deployment(b.cache, s, time,
                                          resp.deployment[s])
             rest == services_with_errors(todo \ {s}, d.cache, time, resp)
         IN  [value |->
                 (s :> [service |-> s, error_count |-> resp.by_service[s],
                        baseline |-> b.value,
                        recent_deployment |-> d.value]) @@ rest.value,
              cache |-> rest.cache]

\* hits.total.value of the errors query
total_errors(resp) ==
    LET RECURSIVE Total(_)
        Total(S) == IF S = {} THEN 0
                    ELSE LET s == CHOOSE x \in S : TRUE
                         IN  resp.by_service[s] + Total(S \ {s})
    IN  Total(CheckServices)

\* smartAssistant.py:329-497: the value returned and the cache afterwards
check_for_errors(cache, time, error_threshold_, resp) ==
    LET cache_key == <<"errors", time, error_threshold_>>
        cached == get_from_cache(cache, cache_key, time)
    IN  IF cached # None THEN [value |-> cached, cache |-> cache]
        ELSE IF resp.errors = "fails" THEN [value |-> None, cache |-> cache]
        ELSE IF total_errors(resp) >= error_threshold_
        THEN LET with == services_with_errors(WithErrors(resp.by_service),
                                              cache, time, resp)
                 result_ == [total_errors |-> total_errors(resp),
                             current_error_rate |->
                                 Frac(total_errors(resp),
                                      Max(1, resp.minutes_with_data)),
                             services_with_errors |-> with.value]
             IN  [value |-> result_,
                  cache |-> add_to_cache(with.cache, cache_key, result_,
                                         time)]
        ELSE [value |-> None, cache |-> cache]

\* max(a, b) of two floats
MaxFrac(a, b) == IF a.num * b.den >= b.num * a.den THEN a ELSE b

\* a / b of two floats: ZeroDivisionError when b is 0
Divide(a, b) ==
    IF b.num = 0 THEN [raised |-> "ZeroDivisionError"]
    ELSE Frac(a.num * b.den, a.den * b.num)

\* smartAssistant.py:542
error_increaseMut(current_rate, baseline_rate) ==
    Divide(current_rate, MaxFrac(Frac(0, 1), baseline_rate))

error_increase(current_rate, baseline_rate) ==
    Divide(current_rate, MaxFrac(Frac(1, 10), baseline_rate))

\* smartAssistant.py:528-529: an entry with the largest error_count
most_affected_service(with) ==
    with[CHOOSE s \in DOMAIN with :
            \A t \in DOMAIN with : with[s].error_count >= with[t].error_count]

\* smartAssistant.py:522-622: the parts of the prompt that are computed
generate_contextual_prompt(data) ==
    IF data = None \/ DOMAIN data.services_with_errors = {}
    THEN [generated |-> TRUE, service |-> "None"]
    ELSE LET most == most_affected_service(data.services_with_errors)
             current_rate == data.current_error_rate
             baseline_rate == most.baseline.avg_per_minute
         IN  [generated |-> TRUE, service |-> most.service,
              current_rate |-> current_rate,
              baseline_rate |-> baseline_rate,
              error_increase |-> error_increase(current_rate, baseline_rate)]

\* generate_contextual_prompt raised
PromptRaised(prompt) ==
    /\ "error_increase" \in DOMAIN prompt
    /\ "raised" \in DOMAIN prompt.error_increase

\* smartAssistant.py:625-655: the prompt, whether the agent is called with
\* it, and the status returned; an exception of generate_contextual_prompt
\* (634, outside the try) leaves the function
progressive_analysis(data, agent_raises) ==
    IF data = None \/ DOMAIN data.services_with_errors = {}
    THEN [called |-> FALSE, status |-> "no_errors", prompt |-> NoPrompt]
    ELSE LET prompt == generate_contextual_prompt(data)
         IN  IF PromptRaised(prompt)
             THEN [called |-> FALSE, status |-> "raised", prompt |-> prompt]
             ELSE [called |-> TRUE,
                   status |-> IF agent_raises THEN "error" ELSE "completed",
                   prompt |-> prompt]

\* the entries of the cache that were written in this step were stored now
StoredAfter(cache) ==
    [k \in DOMAIN cache |->
        IF k \in DOMAIN query_cache /\ cache[k] = query_cache[k]
        THEN stored[k]
        ELSE [at |-> now, data |-> cache[k].data]]

\* smartAssistant.py:917-956: a periodic run
PeriodicRun ==
    /\ check_input = NoCheck
    /\ \E threshold \in CheckThresholds, resp \in StoreResponses,
          agent_raises \in BOOLEAN :
        /\ check_input' = [ran |-> TRUE, error_threshold |-> threshold,
                           store |-> resp]
        /\ IF resp.errors = "no_client"
           THEN /\ error_data' = [raised |-> TRUE]
                /\ periodic_result' = [statusCode |-> 500]
                /\ UNCHANGED <<query_cache, stored, analysis_runs,
                               initial_prompt>>
           ELSE LET checked == check_for_errors(query_cache, now, threshold,
                                                resp)
                    analysis == progressive_analysis(checked.value,
                                                     agent_raises)
                IN  /\ error_data' = checked.value
                    /\ query_cache' = checked.cache
                    /\ stored' = StoredAfter(checked.cache)
                    /\ IF checked.value # None
                       THEN /\ analysis_runs' =
                                  IF analysis.called THEN analysis_runs + 1
                                  ELSE analysis_runs
                            /\ initial_prompt' = analysis.prompt
                            /\ periodic_result' =
                                  IF analysis.status = "raised"
                                  THEN [statusCode |-> 500]
                                  ELSE [statusCode |-> 200,
                                        message |->
                                            "Error threshold exceeded",
                                        status |-> analysis.status]
                       ELSE /\ UNCHANGED <<analysis_runs, initial_prompt>>
                            /\ periodic_result' =
                                  [statusCode |-> 200,
                                   message |-> "No significant errors"]
    /\ UNCHANGED <<now, cached_result, lookup, event, response>>
    /\ UNCHANGED <<lifecycleVars, storeVars, corrVars, impactVars>>

NextCheck == PeriodicRun

SpecCheck == Init /\ [][NextCheck]_vars

\* C19: when a store query failed, the value handed back carries an error
\* indication and differs from what a successful query without data gives:
\* here for the errors query of the periodic check, the baseline query and
\* the deployment query.
C19_QueryFailureExplicit ==
    check_input # NoCheck =>
        /\ check_input.store.errors = "fails"
              => error_data # None /\ "error" \in DOMAIN error_data
        /\ "services_with_errors" \in DOMAIN error_data
              => \A s \in DOMAIN error_data.services_with_errors :
                    LET e == error_data.services_with_errors[s] IN
                    /\ check_input.store.baseline[s] = "fails"
                          => /\ "error" \in DOMAIN e.baseline
                             /\ e.baseline # ZeroBaseline
                    /\ check_input.store.deployment[s] = "fails"
                          => /\ "error" \in DOMAIN e.recent_deployment
                             /\ e.recent_deployment # [found |-> FALSE]

\* C21: a baseline query without day buckets gives the all-zero baseline,
\* and for every baseline (this one included) the error increase of the
\* prompt, current_rate / max(0.1, baseline), is computed without a
\* division by zero.
C21_ZeroBaselineNoDivisionByZero ==
    /\ "services_with_errors" \in DOMAIN error_data
          => \A s \in DOMAIN error_data.services_with_errors :
                check_input.store.baseline[s] = "no_buckets"
                   => error_data.services_with_errors[s].baseline
                         = [avg_per_day |-> Frac(0, 1),
                            avg_per_hour |-> Frac(0, 1),
                            avg_per_minute |-> Frac(0, 1)]
    /\ "error_increase" \in DOMAIN initial_prompt
          => /\ DOMAIN initial_prompt.error_increase = {"num", "den"}
             /\ initial_prompt.error_increase.den > 0
             /\ periodic_result.statusCode = 200

\* a run whose most affected service has no day bucket: the increase is
\* current_rate / 0.1
C21_Witness ==
    /\ "error_increase" \in DOMAIN initial_prompt
    /\ check_input.store.baseline[initial_prompt.service] = "no_buckets"
    /\ initial_prompt.baseline_rate = Frac(0, 1)
    /\ initial_prompt.error_increase =
          Frac(initial_prompt.current_rate.num * 10,
               initial_prompt.current_rate.den)
    /\ analysis_runs = 1

\* C24: the periodic run has error data and runs the analysis only if some
\* service's error count of the window reaches the threshold.
C24_AnalysisNeedsServiceOverThreshold ==
    ("services_with_errors" \in DOMAIN error_data \/ analysis_runs > 0)
        => \E s \in CheckServices :
              check_input.store.by_service[s] >= check_input.error_threshold

----------------------------------------------------------------------------
(* lambda_handler: the events that are neither a callback nor a periodic   *)
(* trigger (smartAssistant.py:673-680, 908-913)                            *)

\* values of the finding_id query parameter
FindingIdValues == {"", "f1"}

\* values of the action query parameter
ActionValues == {"approve", "reject", "delete"}

\* event['queryStringParameters'] as a dictionary with some parameter:
\* another parameter only, one of the two parameters missing, or both
\* present
QueryParameters ==
    {[other |-> "x"], [finding_id |-> "f1"], [action |-> "approve"]}
        \cup {[finding_id |-> f, action |-> a] :
                 f \in FindingIdValues, a \in ActionValues}

\* The events: without the key queryStringParameters, with null for it
\* (a request without query string), with an empty dictionary, or with
\* parameters.
Events ==
    {[kind |-> "no_key"], [kind |-> "null"], [kind |-> "empty"]}
        \cup {[kind |-> "parameters", queryStringParameters |-> q] :
                 q \in QueryParameters}

\* smartAssistant.py:675  if event.get('queryStringParameters'):
has_query_params(e) == e.kind = "parameters"

\* smartAssistant.py:677-678  query_params.get(...): "" stands for a falsy
\* value of the parameter, None included
query_param(e, key) == Get(e.queryStringParameters, key, "")

RouteMut(e) ==
    IF ~has_query_params(e) THEN "periodic"
    ELSE IF query_param(e, "action") \in {"approve", "reject"}
    THEN "callback"
    ELSE "invalid"

\* smartAssistant.py:675-680, 908-917: the branch of lambda_handler an event
\* takes
Route(e) ==
    IF ~has_query_params(e) THEN "periodic"
    ELSE IF query_param(e, "finding_id") # ""
            /\ query_param(e, "action") \in {"approve", "reject"}
    THEN "callback"
    ELSE "invalid"

\* smartAssistant.py:909-913
InvalidParameters == [statusCode |-> 400, title |-> "Error"]

\* smartAssistant.py:675-680 and 908-913: an event with query parameters
\* that are not those of a callback is answered at once
InvalidRequest ==
    /\ \E e \in Events :
        /\ Route(e) = "invalid"
        /\ event' = e
        /\ response' = InvalidParameters
    /\ UNCHANGED <<check_input, error_data, analysis_runs, periodic_result,
                   initial_prompt>>
    /\ UNCHANGED <<lifecycleVars, storeVars, corrVars, impactVars, cacheVars>>

\* events without query parameters start the periodic run
NextRequest == InvalidRequest \/ PeriodicRun

SpecRequest == Init /\ [][NextRequest]_vars

\* the event carries query parameters
CarriesParameters(e) == e.kind = "parameters"

\* the event lacks finding_id, or its action is not approve or reject
LacksIdOrAction(e) ==
    \/ "finding_id" \notin DOMAIN e.queryStringParameters
    \/ e.queryStringParameters.finding_id = ""
    \/ "action" \notin DOMAIN e.queryStringParameters
    \/ e.queryStringParameters.action \notin {"approve", "reject"}

\* C30: an event that carries query parameters but lacks finding_id or has
\* an action other than approve / reject takes the branch of lines 908-913,
\* and the step that handles such an event returns 400 and leaves the
\* Finding, the findings index, the count of agent calls, the periodic
\* check and the cache as they were.
C30_InvalidParameters400 ==
    [][/\ \A e \in Events :
            (CarriesParameters(e) /\ LacksIdOrAction(e))
                => Route(e) = "invalid"
       /\ (event' # event \/ response' # response)
            => /\ CarriesParameters(event') /\ LacksIdOrAction(event')
               /\ response'.statusCode = 400
               /\ UNCHANGED <<doc, pc, agent_calls, h, findings,
                              check_input, error_data, analysis_runs,
                              query_cache>>]_vars

\* after a periodic run, a request with a finding_id and the action delete
\* was answered with 400
C30_Witness ==
    /\ event = [kind |-> "parameters",
                queryStringParameters |->
                    [finding_id |-> "f1", action |-> "delete"]]
    /\ response.statusCode = 400
    /\ analysis_runs = 1
    /\ agent_calls = 0
    /\ doc = NewFinding

----------------------------------------------------------------------------
(* Repeated baseline and deployment lookups of one process                 *)
(* (smartAssistant.py:203-215, 269-281)                                    *)

\* the service the lookups are made for
LookupServices == {"A"}

\* errors per day of the baseline window
LookupBuckets == <<1440, 4320>>

\* smartAssistant.py:203-268: get_baseline_error_rates called at the time
\* now
BaselineLookup ==
    /\ \E service \in LookupServices, outcome \in BaselineOutcomes :
        LET r == get_baseline_error_rates(query_cache, service, now,
                                          outcome, LookupBuckets)
        IN  /\ query_cache' = r.cache
            /\ stored' = StoredAfter(r.cache)
            /\ lookup' = [kind |-> "baseline", service |-> service,
                          at |-> now, queried |-> r.queried]
    /\ UNCHANGED <<now, cached_result>>
    /\ UNCHANGED <<lifecycleVars, storeVars, corrVars, impactVars, checkVars>>

\* smartAssistant.py:269-328: check_recent_deployment called at the time now
DeploymentLookup ==
    /\ \E service \in LookupServices, outcome \in DeploymentOutcomes :
        LET r == check_recent_deployment(query_cache, service, now, outcome)
        IN  /\ query_cache' = r.cache
            /\ stored' = StoredAfter(r.cache)
            /\ lookup' = [kind |-> "deployment", service |-> service,
                          at |-> now, queried |-> r.queried]
    /\ UNCHANGED <<now, cached_result>>
    /\ UNCHANGED <<lifecycleVars, storeVars, corrVars, impactVars, checkVars>>

NextLookup == BaselineLookup \/ DeploymentLookup \/ Tick

SpecLookup == Init /\ [][NextLookup]_vars

\* a result of that kind was computed and cached for the service at an
\* earlier time t with now < t + 300
ComputedWithinTTL(kind, service) ==
    \E k \in DOMAIN stored :
        /\ k[1] = kind
        /\ k[2] = service
        /\ stored[k].at < now
        /\ now < stored[k].at + CACHE_TTL

\* C29: a baseline (or recent-deployment) lookup for a service made at a
\* later time before t + 300 s, where t is the time a result of that kind
\* was computed for the service in this process, issues no store query.
C29_ReusedWithinTTL ==
    [][(lookup' # lookup /\ ComputedWithinTTL(lookup'.kind, lookup'.service))
          => ~lookup'.queried]_vars
====
